---- MODULE Spec2Model ----
(***************************************************************************)
(* A model of the Xcode packaging pipeline of src/打包.py                  *)
(* (class XcodeProjectBuilder and its caller main).                        *)
(*                                                                         *)
(* The state is the file system the pipeline reads and writes, the wall    *)
(* clock, and for every pipeline run (one command-line invocation: the     *)
(* constructor followed by build_ipa) its position and local variables.    *)
(* Runs may follow each other or overlap; all of them are given the same   *)
(* project path, output folder and scheme, as two invocations of the same  *)
(* command line are.                                                       *)
(*                                                                         *)
(* A file name is a pair <<stem, extension>>, a path is the sequence of    *)
(* the names of its components, and the data of a file is a sequence of    *)
(* <<key, value>> lines.  None is the empty path, which Python also        *)
(* treats as false.                                                        *)
(***************************************************************************)
EXTENDS Integers, Sequences, FiniteSets, TLC

(***************************************************************************)
(* Bounds of the model.                                                    *)
(***************************************************************************)
\* The wall clock shows the seconds 0..MaxClock.
MaxClock == 1

\* The pipeline runs, sequential or overlapping: two invocations of main.
Runs == {1, 2}

VARIABLES
    fs,             \* the file system: path -> [kind, data]
    clock,          \* the wall clock, in seconds
    scratch,        \* run -> the state of the directory its mkdtemp made
    run             \* run -> its position and local variables

vars == <<fs, clock, scratch, run>>

(***************************************************************************)
(* Names and paths.                                                        *)
(***************************************************************************)
None == << >>

Name(stem, ext) == <<stem, ext>>

\* os.path.join(path, name)
Join(path, name) == Append(path, name)

\* str.endswith for a file name
EndsWith(name, suffix) == name[2] = suffix

\* os.path.basename
Basename(path) == path[Len(path)]

\* Python truthiness of a path-or-None value
Truthy(path) == path # None

IsPrefix(dir, path) ==
    /\ Len(dir) <= Len(path)
    /\ SubSeq(path, 1, Len(dir)) = dir

\* The path and all its ancestors.
Prefixes(path) == { SubSeq(path, 1, n) : n \in 1..Len(path) }

\* The project root given on the command line (main, --path).
project_path == << Name("MMP", "") >>

\* self.scheme_name: the scheme given, or the default "MMP".
scheme_name == "MMP"

\* self.output_folder: no --output given, so <project_path>/Build, which lies
\* inside the tree find_entitlements_file walks.
output_folder == Join(project_path, Name("Build", ""))

(***************************************************************************)
(* The file system.                                                        *)
(***************************************************************************)
NoData == << >>

DirNode == [kind |-> "dir", data |-> NoData]

FileNode(data) == [kind |-> "file", data |-> data]

Exists(f, path) == path \in DOMAIN f

IsFile(f, path) == Exists(f, path) /\ f[path].kind = "file"

IsDir(f, path) == Exists(f, path) /\ f[path].kind = "dir"

\* The entries directly inside dir.
Children(f, dir) ==
    { p \in DOMAIN f : Len(p) = Len(dir) + 1 /\ IsPrefix(dir, p) }

\* dir and everything below it.
Under(f, dir) == { p \in DOMAIN f : IsPrefix(dir, p) }

\* The file system with the entries of g written over those of f.
Overlay(f, g) ==
    [ p \in DOMAIN f \cup DOMAIN g |-> IF p \in DOMAIN g THEN g[p] ELSE f[p] ]

\* os.makedirs(path, exist_ok=True): path and its missing ancestors.
Makedirs(f, path) ==
    [ p \in DOMAIN f \cup Prefixes(path) |->
        IF p \in DOMAIN f THEN f[p] ELSE DirNode ]

\* A file written (created or replaced) at path.
WriteFile(f, path, data) ==
    [ p \in DOMAIN f \cup {path} |->
        IF p = path THEN FileNode(data) ELSE f[p] ]

\* shutil.rmtree(dir): dir and everything below it is gone.
Rmtree(f, dir) == [ p \in DOMAIN f \ Under(f, dir) |-> f[p] ]

\* One entry removed.
Remove(f, path) == [ p \in DOMAIN f \ {path} |-> f[p] ]

\* All orders in which os.listdir may list the set S of names.
RECURSIVE Orders(_)
Orders(S) ==
    IF S = {} THEN { << >> }
    ELSE UNION { { <<x>> \o rest : rest \in Orders(S \ {x}) } : x \in S }

\* os.listdir(dir): the names of its entries, in arbitrary order.
Listdir(f, dir) == Orders({ Basename(p) : p \in Children(f, dir) })

(***************************************************************************)
(* The values the pipeline writes.                                         *)
(***************************************************************************)
\* The dictionary of create_file_access_entitlements, as plistlib.dump writes
\* it: one line per key, the keys sorted.
entitlements ==
    << <<"com.apple.security.app-sandbox", "true">>,
       <<"com.apple.security.device.camera", "false">>,
       <<"com.apple.security.device.microphone", "false">>,
       <<"com.apple.security.files.downloads.read-only", "true">>,
       <<"com.apple.security.files.downloads.read-write", "true">>,
       <<"com.apple.security.files.user-selected.read-only", "true">>,
       <<"com.apple.security.files.user-selected.read-write", "true">>,
       <<"com.apple.security.network.client", "true">> >>

\* A manifest the project's author wrote.
AuthorEntitlements ==
    << <<"com.apple.security.app-sandbox", "true">> >>

\* datetime.now().strftime("%Y%m%d_%H%M%S"): the second the clock shows.
Strftime(t) == ToString(t)

\* <output_folder>/Archive_<timestamp>.xcarchive
ArchivePath(out, timestamp) ==
    Join(out, Name("Archive_" \o timestamp, ".xcarchive"))

\* <archive_path>/Products/Applications/<scheme>.app
AppPath(archive_path) ==
    Join(Join(Join(archive_path, Name("Products", "")),
              Name("Applications", "")),
         Name(scheme_name, ".app"))

\* <app_path>/<basename of app_path without ".app">
BinaryPath(app_path) ==
    Join(app_path, Name(Basename(app_path)[1], ""))

\* <project_path>/<scheme>.entitlements
NewEntitlementsPath == Join(project_path, Name(scheme_name, ".entitlements"))

\* <output_folder>/<scheme>_<timestamp>.zip, what shutil.make_archive writes
ZipPath(out, timestamp) ==
    Join(out, Name(scheme_name \o "_" \o timestamp, ".zip"))

\* <output_folder>/<scheme>_<timestamp>.ipa
FinalIpaPath(out, timestamp) ==
    Join(out, Name(scheme_name \o "_" \o timestamp, ".ipa"))

\* <output_folder>/AppEntitlements.plist
ReferenceCopyPath(out) == Join(out, Name("AppEntitlements", ".plist"))

(***************************************************************************)
(* get_project_info: the loop over the listing of the project root.        *)
(***************************************************************************)
RECURSIVE ProjectInfoLoop(_, _, _)
ProjectInfoLoop(items, workspace_path, xcodeproj_path) ==
    IF items = << >> THEN <<workspace_path, xcodeproj_path>>
    ELSE LET item == Head(items) IN
         IF EndsWith(item, ".xcworkspace")
         THEN ProjectInfoLoop(Tail(items), Join(project_path, item),
                              xcodeproj_path)
         ELSE IF EndsWith(item, ".xcodeproj")
         THEN ProjectInfoLoop(Tail(items), workspace_path,
                              Join(project_path, item))
         ELSE ProjectInfoLoop(Tail(items), workspace_path, xcodeproj_path)

\* get_project_info looking for the project descriptor only.
ProjectInfoWithoutWorkspace(items) ==
    <<None, ProjectInfoLoop(items, None, None)[2]>>

get_project_info(items) == ProjectInfoLoop(items, None, None)

(***************************************************************************)
(* find_entitlements_file: the os.walk loop.  os.walk visits a directory   *)
(* before its subdirectories and lists the entries of each directory in    *)
(* arbitrary order, so the file returned is any matching file of the       *)
(* directory itself, or, when it has none, the first match of any of its   *)
(* subdirectories.                                                         *)
(***************************************************************************)
\* A walk that looks at the files of the subdirectories only.
RECURSIVE WalkSubfolders(_, _)
WalkSubfolders(f, dir) ==
    LET dirs == { p \in Children(f, dir) : f[p].kind = "dir" }
        hits(d) == { p \in Children(f, d) :
                       /\ f[p].kind = "file"
                       /\ EndsWith(Basename(p), ".entitlements") }
    IN  UNION { IF hits(d) # {} THEN hits(d) ELSE WalkSubfolders(f, d) :
                d \in dirs }

RECURSIVE WalkMatches(_, _)
WalkMatches(f, dir) ==
    LET files == { p \in Children(f, dir) : f[p].kind = "file" }
        dirs  == { p \in Children(f, dir) : f[p].kind = "dir" }
        hits  == { p \in files : EndsWith(Basename(p), ".entitlements") }
    IN  IF hits # {} THEN hits
        ELSE UNION { WalkMatches(f, d) : d \in dirs }

(***************************************************************************)
(* The initial state: a project tree, no output folder yet, no run begun.  *)
(***************************************************************************)
WorkspaceDescriptor == Join(project_path, Name("MMP", ".xcworkspace"))
ProjectDescriptor == Join(project_path, Name("MMP", ".xcodeproj"))
SourceFolder == Join(project_path, Name("Sources", ""))
NestedDescriptor == Join(SourceFolder, Name("Pods", ".xcodeproj"))
RootManifest == Join(project_path, Name("App", ".entitlements"))
NestedManifest == Join(SourceFolder, Name("App", ".entitlements"))
OtherNestedManifest == Join(SourceFolder, Name("Share", ".entitlements"))

\* The manifests the project may hold before the first run: none, one at the
\* root, one in a subfolder, or two in the same subfolder.
AuthorManifests ==
    { {}, {RootManifest}, {NestedManifest},
      {NestedManifest, OtherNestedManifest} }

\* The project tree with the chosen optional entries.
ProjectTree(optional) ==
    [ p \in {project_path, SourceFolder, NestedDescriptor} \cup optional |->
        IF p \in UNION AuthorManifests
        THEN FileNode(AuthorEntitlements)
        ELSE DirNode ]

\* The command line of an external tool, as subprocess.run is given it.
Command(tool, flag, target, extra) ==
    [tool |-> tool, flag |-> flag, target |-> target, extra |-> extra]

\* No child process.
NoCommand == Command("none", "", None, None)

\* No child process has exited yet.
NoReturnCode == -1

NewRun ==
    [ pc                       |-> "start",
      success                  |-> "none",
      log                      |-> "none",
      workspace_path           |-> None,
      xcodeproj_path           |-> None,
      entitlements_path        |-> None,
      caller                   |-> "none",
      created                  |-> {},
      archive_path             |-> None,
      embed_entitlements_path  |-> None,
      embedded                 |-> "none",
      payload                  |-> NoData,
      zip_path                 |-> None,
      final_ipa_path           |-> None,
      child                    |-> NoCommand,
      returncode               |-> NoReturnCode ]

Init ==
    /\ \E descriptors \in SUBSET {WorkspaceDescriptor, ProjectDescriptor},
          manifests \in AuthorManifests :
          /\ descriptors = {ProjectDescriptor} \/ manifests = {}
          /\ fs = ProjectTree(descriptors \cup manifests)
    /\ clock = 0
    /\ scratch = [ r \in Runs |-> "absent" ]
    /\ run = [ r \in Runs |-> NewRun ]

(***************************************************************************)
(* How a step of a run ends.                                               *)
(***************************************************************************)
\* build_ipa returns value after printing the diagnostic: the run is over
\* and its local variables are gone.
Returned(rec, value, diagnostic) ==
    [NewRun EXCEPT !.pc = "done", !.success = value, !.log = diagnostic]

\* An exception raised inside build_ipa: the handler of lines 178-180
\* prints it and returns False.
Caught(rec) == Returned(rec, "False", "exception")

\* EmbedReturned with a failed embedding ending the build.
EmbedFatal(rec, value) ==
    IF value = "False"
    THEN Returned(rec, "False", "embed_failed")
    ELSE [rec EXCEPT !.pc = "stage", !.embedded = value, !.caller = "none",
                     !.created = {}, !.embed_entitlements_path = None,
                     !.child = NoCommand]

\* embed_entitlements_in_binary returns value to build_ipa (line 132): on
\* False a warning is printed, and packaging goes on either way.
EmbedReturned(rec, value) ==
    [rec EXCEPT !.pc = "stage", !.embedded = value, !.caller = "none",
                !.created = {}, !.embed_entitlements_path = None,
                !.child = NoCommand]

\* FindReturned taking every call for the one of build_ipa (line 107).
FindReturnedToArchive(rec, path) ==
    [rec EXCEPT !.pc = "archive", !.entitlements_path = path]

\* find_entitlements_file returns path to its caller.
FindReturned(rec, path) ==
    IF rec.caller = "build_ipa"
    THEN [rec EXCEPT !.pc = "archive", !.entitlements_path = path]
    ELSE [rec EXCEPT !.pc = "codesign", !.embed_entitlements_path = path]

\* An exception raised inside find_entitlements_file reaches the handler of
\* the caller: build_ipa's (lines 178-180), or the embedder's (lines 93-95).
FindRaised(rec) ==
    IF rec.caller = "build_ipa"
    THEN Caught(rec)
    ELSE EmbedReturned(rec, "False")

(***************************************************************************)
(* The steps of a run.                                                     *)
(***************************************************************************)
\* XcodeProjectBuilder.__init__ (lines 10-16), called by main (line 195)
\* outside any handler.
Construct(r) ==
    /\ run[r].pc = "start"
    /\ UNCHANGED <<clock, scratch>>
    /\ \/ /\ fs' = Makedirs(fs, output_folder)
          /\ run' = [run EXCEPT ![r].pc = "get_project_info"]
       \/ \* os.makedirs raises
          /\ fs' = fs
          /\ run' = [run EXCEPT ![r].pc = "done", ![r].success = "raised"]

\* Located without the test of lines 102-104.
LocatedWithoutTest(rec, info) ==
    [rec EXCEPT !.pc = "find_entitlements_file",
                !.caller = "build_ipa",
                !.workspace_path = info[1],
                !.xcodeproj_path = info[2]]

\* What build_ipa does with the pair get_project_info returned (100-104).
Located(rec, info) ==
    IF ~Truthy(info[1]) /\ ~Truthy(info[2])
    THEN Returned(rec, "False", "no_project")
    ELSE [rec EXCEPT !.pc = "find_entitlements_file",
                     !.caller = "build_ipa",
                     !.workspace_path = info[1],
                     !.xcodeproj_path = info[2]]

\* build_ipa calling the Entitlements Resolver before it tests what
\* get_project_info returned.
GetProjectInfoResolvingFirst(r) ==
    /\ run[r].pc = "get_project_info"
    /\ UNCHANGED <<clock, scratch>>
    /\ fs' = IF WalkMatches(fs, project_path) = {}
             THEN WriteFile(fs, NewEntitlementsPath, entitlements)
             ELSE fs
    /\ \/ \E items \in Listdir(fs, project_path) :
             run' = [run EXCEPT ![r] = Located(@, get_project_info(items))]
       \/ run' = [run EXCEPT ![r] = Located(@, <<None, None>>)]

\* get_project_info (lines 18-33) and the test of its result (100-104).
GetProjectInfo(r) ==
    /\ run[r].pc = "get_project_info"
    /\ UNCHANGED <<fs, clock, scratch>>
    /\ \/ \E items \in Listdir(fs, project_path) :
             run' = [run EXCEPT ![r] = Located(@, get_project_info(items))]
       \/ \* os.listdir raises: the handler of lines 31-33
          run' = [run EXCEPT ![r] = Located(@, <<None, None>>)]

\* find_entitlements_file as one indivisible step: the walk and, with no
\* match, the creation of the complete file.
FindOrCreateAtomically(r) ==
    /\ run[r].pc = "find_entitlements_file"
    /\ UNCHANGED <<clock, scratch>>
    /\ LET hits == WalkMatches(fs, project_path) IN
       IF hits # {}
       THEN /\ fs' = fs
            /\ \E path \in hits :
                  run' = [run EXCEPT ![r] = FindReturned(@, path)]
       ELSE /\ fs' = WriteFile(fs, NewEntitlementsPath, entitlements)
            /\ run' = [run EXCEPT ![r] =
                  FindReturned([@ EXCEPT !.created = @ \cup {run[r].caller}],
                               NewEntitlementsPath)]

\* find_entitlements_file without the walk: it creates the file every time.
FindAlwaysCreates(r) ==
    /\ run[r].pc = "find_entitlements_file"
    /\ UNCHANGED <<fs, clock, scratch>>
    /\ run' = [run EXCEPT ![r].pc = "open"]

\* find_entitlements_file, the walk (lines 38-41) and, with no match, the
\* path of the file to create (line 44).
FindEntitlementsFile(r) ==
    /\ run[r].pc = "find_entitlements_file"
    /\ UNCHANGED <<fs, clock, scratch>>
    /\ LET hits == WalkMatches(fs, project_path) IN
       IF hits # {}
       THEN \E path \in hits : run' = [run EXCEPT ![r] = FindReturned(@, path)]
       ELSE run' = [run EXCEPT ![r].pc = "open"]

\* create_file_access_entitlements: open(path, 'wb') (line 62) creates the
\* file or truncates it.
OpenEntitlements(r) ==
    /\ run[r].pc = "open"
    /\ UNCHANGED <<clock, scratch>>
    /\ \/ /\ fs' = WriteFile(fs, NewEntitlementsPath, NoData)
          /\ run' = [run EXCEPT ![r].pc = "dump",
                                ![r].created = @ \cup {run[r].caller}]
       \/ \* open raises
          /\ fs' = fs
          /\ run' = [run EXCEPT ![r] = FindRaised(@)]

\* create_file_access_entitlements: plistlib.dump and the close (line 63),
\* then the return of the path (lines 66 and 46).
DumpEntitlements(r) ==
    /\ run[r].pc = "dump"
    /\ UNCHANGED <<clock, scratch>>
    /\ \/ /\ fs' = WriteFile(fs, NewEntitlementsPath, entitlements)
          /\ run' = [run EXCEPT ![r] = FindReturned(@, NewEntitlementsPath)]
       \/ \* the write raises: the file stays as open left it
          /\ fs' = fs
          /\ run' = [run EXCEPT ![r] = FindRaised(@)]

\* The archive command with the project descriptor tested first.
ArchiveCommandProjectFirst(rec, archive_path) ==
    IF Truthy(rec.xcodeproj_path)
    THEN Command("xcodebuild", "-project", rec.xcodeproj_path, archive_path)
    ELSE Command("xcodebuild", "-workspace", rec.workspace_path, archive_path)

\* The archive command of lines 116-119.
ArchiveCommand(rec, archive_path) ==
    IF Truthy(rec.workspace_path)
    THEN Command("xcodebuild", "-workspace", rec.workspace_path, archive_path)
    ELSE Command("xcodebuild", "-project", rec.xcodeproj_path, archive_path)

\* The timestamp and archive path (lines 110-111), the archive command
\* (116-119) and the start of xcodebuild by subprocess.run (line 122).
Archive(r) ==
    /\ run[r].pc = "archive"
    /\ UNCHANGED <<fs, scratch>>
    /\ \E t \in clock..MaxClock :
         /\ clock' = t
         /\ LET archive_path == ArchivePath(output_folder, Strftime(t))
                rec == [run[r] EXCEPT !.archive_path = archive_path]
            IN  \/ run' = [run EXCEPT ![r] =
                     [rec EXCEPT !.pc = "xcodebuild_running",
                                 !.child =
                                     ArchiveCommand(rec, archive_path)]]
                \/ \* subprocess.run raises before the tool starts
                   run' = [run EXCEPT ![r] = Caught(rec)]

\* What xcodebuild may do: write a complete archive, one whose application
\* bundle has no executable named after it, or one without the bundle at the
\* expected place, and exit with status 0; or fail, writing no archive.
XcodebuildOutcomes == {"archived", "no_binary", "no_app", "failed"}

\* The exit status of xcodebuild.
ReturnCode(outcome) ==
    IF outcome \in {"archived", "no_binary", "no_app"} THEN 0 ELSE 1

UnsignedBinary == << <<"Mach-O", "unsigned">> >>

\* The entries xcodebuild wrote at archive_path.
ArchiveTree(archive_path, outcome) ==
    LET products == Join(archive_path, Name("Products", ""))
        apps     == Join(products, Name("Applications", ""))
        app      == AppPath(archive_path)
        binary   == BinaryPath(app)
        paths    ==
            CASE outcome = "archived"  -> {archive_path, products, apps, app,
                                           binary}
              [] outcome = "no_binary" -> {archive_path, products, apps, app}
              [] outcome = "no_app"    -> {archive_path, products, apps}
              [] OTHER -> {}
    IN  [ p \in paths |->
            IF p = binary THEN FileNode(UnsignedBinary) ELSE DirNode ]

\* subprocess.run given a timeout: xcodebuild exits, or the wait is given
\* up and TimeoutExpired reaches the handler of lines 178-180.
XcodebuildExitOrTimeout(r) ==
    /\ run[r].pc = "xcodebuild_running"
    /\ UNCHANGED <<clock, scratch>>
    /\ \/ \E outcome \in XcodebuildOutcomes :
             /\ fs' = Overlay(fs, ArchiveTree(run[r].archive_path, outcome))
             /\ run' = [run EXCEPT ![r].pc = "archive_status",
                                   ![r].child = NoCommand,
                                   ![r].returncode = ReturnCode(outcome)]
       \/ /\ fs' = fs
          /\ run' = [run EXCEPT ![r] = Caught(@)]

\* xcodebuild exits: subprocess.run returns its status (line 122).
XcodebuildExit(r) ==
    /\ run[r].pc = "xcodebuild_running"
    /\ UNCHANGED <<clock, scratch>>
    /\ \E outcome \in XcodebuildOutcomes :
         /\ fs' = Overlay(fs, ArchiveTree(run[r].archive_path, outcome))
         /\ run' = [run EXCEPT ![r].pc = "archive_status",
                               ![r].child = NoCommand,
                               ![r].returncode = ReturnCode(outcome)]

\* ArchiveChecked without the test of the status.
ArchiveUnchecked(rec) ==
    [rec EXCEPT !.pc = "embed", !.returncode = NoReturnCode]

\* The test of the status of xcodebuild (lines 124-128).
ArchiveChecked(rec) ==
    IF rec.returncode # 0
    THEN Returned(rec, "False", "build_failed")
    ELSE [rec EXCEPT !.pc = "embed", !.returncode = NoReturnCode]

ArchiveStatus(r) ==
    /\ run[r].pc = "archive_status"
    /\ UNCHANGED <<fs, clock, scratch>>
    /\ run' = [run EXCEPT ![r] = ArchiveChecked(@)]

\* embed_entitlements_in_binary up to its call of find_entitlements_file
\* (lines 131 and 72-80).
Embed(r) ==
    /\ run[r].pc = "embed"
    /\ UNCHANGED <<fs, clock, scratch>>
    /\ LET binary_path == BinaryPath(AppPath(run[r].archive_path)) IN
       run' = [run EXCEPT ![r] =
                IF ~Exists(fs, binary_path)
                THEN EmbedReturned(@, "False")
                ELSE [@ EXCEPT !.pc = "find_entitlements_file",
                               !.caller = "embed"]]

\* The codesign command (line 81) and its start (line 84).
Codesign(r) ==
    /\ run[r].pc = "codesign"
    /\ UNCHANGED <<fs, clock, scratch>>
    /\ LET binary_path == BinaryPath(AppPath(run[r].archive_path))
           embed_cmd == Command("codesign", "--entitlements", binary_path,
                                run[r].embed_entitlements_path)
       IN  \/ run' = [run EXCEPT ![r].pc = "codesign_running",
                                 ![r].child = embed_cmd]
           \/ \* subprocess.run raises: the handler of lines 93-95
              run' = [run EXCEPT ![r] = EmbedReturned(@, "False")]

\* The executable signed ad hoc with the manifest's lines attached.
SignedBinary(manifest) == << <<"Mach-O", "adhoc">> >> \o manifest

\* codesign exits, and the embedder tests its status (lines 86-91).
CodesignExit(r) ==
    /\ run[r].pc = "codesign_running"
    /\ UNCHANGED <<clock, scratch>>
    /\ LET binary_path == run[r].child.target
           manifest == run[r].child.extra
       IN  \/ /\ IsFile(fs, binary_path)
              /\ IsFile(fs, manifest)
              /\ fs' = WriteFile(fs, binary_path,
                                 SignedBinary(fs[manifest].data))
              /\ run' = [run EXCEPT ![r] = EmbedReturned(@, "True")]
           \/ \* a non-zero status
              /\ fs' = fs
              /\ run' = [run EXCEPT ![r] = EmbedReturned(@, "False")]

\* What copytree copies: the bundle's executable, if it has one.
BundleData(f, app_path) ==
    IF IsFile(f, BinaryPath(app_path)) THEN f[BinaryPath(app_path)].data
    ELSE NoData

\* The scratch directory, its Payload folder and the copy of the bundle
\* into it (lines 140-145).
Stage(r) ==
    /\ run[r].pc = "stage"
    /\ UNCHANGED <<fs, clock>>
    /\ LET app_path == AppPath(run[r].archive_path) IN
       \/ \* tempfile.mkdtemp raises
          /\ scratch' = scratch
          /\ run' = [run EXCEPT ![r] = Caught(@)]
       \/ \* os.makedirs raises, or shutil.copytree does, as it does when
          \* the bundle is missing
          /\ scratch' = [scratch EXCEPT ![r] = "present"]
          /\ run' = [run EXCEPT ![r] = Caught(@)]
       \/ /\ IsDir(fs, app_path)
          /\ scratch' = [scratch EXCEPT ![r] = "present"]
          /\ run' = [run EXCEPT ![r].pc = "compress",
                                ![r].payload = BundleData(fs, app_path)]

\* The zip container of the Payload folder.
ZipData(payload) == << <<"Payload", scheme_name \o ".app">> >> \o payload

\* The second timestamp, the final path and shutil.make_archive
\* (lines 148-160).
Compress(r) ==
    /\ run[r].pc = "compress"
    /\ UNCHANGED scratch
    /\ \E t \in clock..MaxClock :
         /\ clock' = t
         /\ LET timestamp == Strftime(t)
                zip_path == ZipPath(output_folder, timestamp)
                rec == [run[r] EXCEPT
                          !.final_ipa_path =
                              FinalIpaPath(output_folder, timestamp)]
            IN  \/ /\ fs' = WriteFile(fs, zip_path, ZipData(rec.payload))
                   /\ run' = [run EXCEPT ![r] =
                         [rec EXCEPT !.pc = "move", !.zip_path = zip_path,
                                     !.payload = NoData]]
                \/ \* make_archive raises before it writes
                   /\ fs' = fs
                   /\ run' = [run EXCEPT ![r] = Caught(rec)]
                \/ \* make_archive raises while it writes
                   /\ fs' = WriteFile(fs, zip_path, NoData)
                   /\ run' = [run EXCEPT ![r] = Caught(rec)]

\* shutil.move(zip_path, final_ipa_path) (line 163).
Move(r) ==
    /\ run[r].pc = "move"
    /\ UNCHANGED <<clock, scratch>>
    /\ \/ /\ IsFile(fs, run[r].zip_path)
          /\ fs' = Overlay(Remove(fs, run[r].zip_path),
                           [ p \in {run[r].final_ipa_path} |->
                               fs[run[r].zip_path] ])
          /\ run' = [run EXCEPT ![r].pc = "copy2"]
       \/ \* shutil.move raises, as it does when the zip file is gone
          /\ fs' = fs
          /\ run' = [run EXCEPT ![r] = Caught(@)]

\* shutil.copy2 of the manifest to the output folder (line 168).
Copy2(r) ==
    /\ run[r].pc = "copy2"
    /\ UNCHANGED <<clock, scratch>>
    /\ \/ /\ IsFile(fs, run[r].entitlements_path)
          /\ fs' = WriteFile(fs, ReferenceCopyPath(output_folder),
                             fs[run[r].entitlements_path].data)
          /\ run' = [run EXCEPT ![r].pc = "cleanup"]
       \/ \* shutil.copy2 raises
          /\ fs' = fs
          /\ run' = [run EXCEPT ![r] = Caught(@)]

\* Cleanup with ignore_errors=True given to both removals.
CleanupIgnoringErrors(r) ==
    /\ run[r].pc = "cleanup"
    /\ UNCHANGED clock
    /\ scratch' \in {scratch, [scratch EXCEPT ![r] = "absent"]}
    /\ fs' \in {fs, Rmtree(fs, run[r].archive_path)}
    /\ run' = [run EXCEPT ![r] = Returned(@, "True", "none")]

\* The two removals and the return (lines 172-175).
Cleanup(r) ==
    /\ run[r].pc = "cleanup"
    /\ UNCHANGED clock
    /\ \/ \* shutil.rmtree(temp_dir) raises
          /\ UNCHANGED <<fs, scratch>>
          /\ run' = [run EXCEPT ![r] = Caught(@)]
       \/ \* both removed
          /\ scratch' = [scratch EXCEPT ![r] = "absent"]
          /\ fs' = Rmtree(fs, run[r].archive_path)
          /\ run' = [run EXCEPT ![r] = Returned(@, "True", "none")]
       \/ \* the removal of the archive fails: ignore_errors=True
          /\ scratch' = [scratch EXCEPT ![r] = "absent"]
          /\ fs' = fs
          /\ run' = [run EXCEPT ![r] = Returned(@, "True", "none")]

(***************************************************************************)
(* The specifications.                                                     *)
(***************************************************************************)
\* Runs started at any time: they may overlap.
Next ==
    \/ \E r \in Runs : Construct(r)
    \/ \E r \in Runs : GetProjectInfo(r)
    \/ \E r \in Runs : FindEntitlementsFile(r)
    \/ \E r \in Runs : OpenEntitlements(r)
    \/ \E r \in Runs : DumpEntitlements(r)
    \/ \E r \in Runs : Archive(r)
    \/ \E r \in Runs : XcodebuildExit(r)
    \/ \E r \in Runs : ArchiveStatus(r)
    \/ \E r \in Runs : Embed(r)
    \/ \E r \in Runs : Codesign(r)
    \/ \E r \in Runs : CodesignExit(r)
    \/ \E r \in Runs : Stage(r)
    \/ \E r \in Runs : Compress(r)
    \/ \E r \in Runs : Move(r)
    \/ \E r \in Runs : Copy2(r)
    \/ \E r \in Runs : Cleanup(r)

Spec == Init /\ [][Next]_vars

\* A run is in progress.
Running(r) == run[r].pc \notin {"start", "done"}

\* Runs one after the other: a run takes steps only while no other run is
\* in progress.
Alone(r) == \A q \in Runs \ {r} : ~Running(q)

SequentialNext ==
    \/ \E r \in Runs : Alone(r) /\ Construct(r)
    \/ \E r \in Runs : Alone(r) /\ GetProjectInfo(r)
    \/ \E r \in Runs : Alone(r) /\ FindEntitlementsFile(r)
    \/ \E r \in Runs : Alone(r) /\ OpenEntitlements(r)
    \/ \E r \in Runs : Alone(r) /\ DumpEntitlements(r)
    \/ \E r \in Runs : Alone(r) /\ Archive(r)
    \/ \E r \in Runs : Alone(r) /\ XcodebuildExit(r)
    \/ \E r \in Runs : Alone(r) /\ ArchiveStatus(r)
    \/ \E r \in Runs : Alone(r) /\ Embed(r)
    \/ \E r \in Runs : Alone(r) /\ Codesign(r)
    \/ \E r \in Runs : Alone(r) /\ CodesignExit(r)
    \/ \E r \in Runs : Alone(r) /\ Stage(r)
    \/ \E r \in Runs : Alone(r) /\ Compress(r)
    \/ \E r \in Runs : Alone(r) /\ Move(r)
    \/ \E r \in Runs : Alone(r) /\ Copy2(r)
    \/ \E r \in Runs : Alone(r) /\ Cleanup(r)

SequentialSpec == Init /\ [][SequentialNext]_vars

\* A step of run r that is the program's own: every step of build_ipa but
\* the two waits for a child process.
Proceed(r) ==
    \/ GetProjectInfo(r)
    \/ FindEntitlementsFile(r)
    \/ OpenEntitlements(r)
    \/ DumpEntitlements(r)
    \/ Archive(r)
    \/ ArchiveStatus(r)
    \/ Embed(r)
    \/ Codesign(r)
    \/ Stage(r)
    \/ Compress(r)
    \/ Move(r)
    \/ Copy2(r)
    \/ Cleanup(r)

\* Only run r has begun.
OnlyRun(r) == \A q \in Runs \ {r} : run[q].pc = "start"

\* One run by itself: the steps of the run that began first, the other never
\* beginning.
SoloNext ==
    \/ \E r \in Runs : OnlyRun(r) /\ Construct(r)
    \/ \E r \in Runs : OnlyRun(r) /\ GetProjectInfo(r)
    \/ \E r \in Runs : OnlyRun(r) /\ FindEntitlementsFile(r)
    \/ \E r \in Runs : OnlyRun(r) /\ OpenEntitlements(r)
    \/ \E r \in Runs : OnlyRun(r) /\ DumpEntitlements(r)
    \/ \E r \in Runs : OnlyRun(r) /\ Archive(r)
    \/ \E r \in Runs : OnlyRun(r) /\ XcodebuildExit(r)
    \/ \E r \in Runs : OnlyRun(r) /\ ArchiveStatus(r)
    \/ \E r \in Runs : OnlyRun(r) /\ Embed(r)
    \/ \E r \in Runs : OnlyRun(r) /\ Codesign(r)
    \/ \E r \in Runs : OnlyRun(r) /\ CodesignExit(r)
    \/ \E r \in Runs : OnlyRun(r) /\ Stage(r)
    \/ \E r \in Runs : OnlyRun(r) /\ Compress(r)
    \/ \E r \in Runs : OnlyRun(r) /\ Move(r)
    \/ \E r \in Runs : OnlyRun(r) /\ Copy2(r)
    \/ \E r \in Runs : OnlyRun(r) /\ Cleanup(r)

\* One run whose program steps are taken when they can be (the interpreter
\* runs build_ipa on, and every library call returns or raises), and whose
\* child processes, once started, exit.
FairSpec ==
    /\ Init
    /\ [][SoloNext]_vars
    /\ \A r \in Runs :
          /\ WF_vars(OnlyRun(r) /\ Proceed(r))
          /\ WF_vars(OnlyRun(r) /\ XcodebuildExit(r))
          /\ WF_vars(OnlyRun(r) /\ CodesignExit(r))

(***************************************************************************)
(* What the properties below speak of.                                     *)
(***************************************************************************)
\* Run r takes the step.
Stepped(r) == run'[r] # run[r]

\* Run r returns to main in the step.
Returns(r) == run[r].pc # "done" /\ run'[r].pc = "done"

\* The workspace and project descriptors among the children of the root.
Descriptors(f) ==
    { p \in Children(f, project_path) :
        \/ EndsWith(Basename(p), ".xcworkspace")
        \/ EndsWith(Basename(p), ".xcodeproj") }

\* The .ipa and .zip files of the output folder, with their data.
Containers(f) ==
    LET files == { p \in Children(f, output_folder) :
                     \/ EndsWith(Basename(p), ".ipa")
                     \/ EndsWith(Basename(p), ".zip") }
    IN  [ p \in files |-> f[p] ]

\* The .entitlements files anywhere under the project root.
Manifests(f) ==
    { p \in Under(f, project_path) :
        f[p].kind = "file" /\ EndsWith(Basename(p), ".entitlements") }

\* The stages of the Manual Packager.
PackagerStages == {"stage", "compress", "move", "copy2", "cleanup"}

\* The stages of build_ipa before the Manual Packager.
EarlierStages ==
    {"get_project_info", "find_entitlements_file", "open", "dump", "archive",
     "xcodebuild_running", "archive_status", "embed", "codesign",
     "codesign_running"}

(***************************************************************************)
(* C1.  With neither a .xcworkspace nor a .xcodeproj entry among the       *)
(* immediate children of the project root, build_ipa returns False at the  *)
(* test of get_project_info's result, and at no point of the run is        *)
(* xcodebuild or codesign started: the run never leaves get_project_info   *)
(* but to return, and it has no child process.                             *)
(***************************************************************************)
C1_NoDescriptorNoTool ==
    Descriptors(fs) = {} =>
        \A r \in Runs :
            /\ run[r].pc \in {"start", "get_project_info", "done"}
            /\ run[r].child = NoCommand
            /\ run[r].pc = "done" /\ run[r].success # "raised" =>
                  run[r].success = "False" /\ run[r].log = "no_project"

\* A run has returned False from a root without descriptors.
C1_Witness ==
    /\ Descriptors(fs) = {}
    /\ \E r \in Runs :
          /\ run[r].pc = "done"
          /\ run[r].success = "False"
          /\ run[r].log = "no_project"

(***************************************************************************)
(* C2.  When xcodebuild has exited with a non-zero status, the next step   *)
(* of the run is the return of False: the Manual Packager is not entered,  *)
(* and the .ipa and .zip files of the output folder are as they were.  The *)
(* run has not written any before either: no step of a stage before the    *)
(* Manual Packager changes them.                                           *)
(***************************************************************************)
C2_BuildFailureStops ==
    [][ \A r \in Runs :
          /\ (run[r].pc = "archive_status" /\ run[r].returncode # 0
                /\ Stepped(r)) =>
                /\ run'[r].pc = "done"
                /\ run'[r].success = "False"
                /\ Containers(fs') = Containers(fs)
          /\ (run[r].pc \in EarlierStages /\ Stepped(r)) =>
                Containers(fs') = Containers(fs)
          /\ (run[r].pc = "done" => run'[r] = run[r]) ]_vars

\* The only run that began has returned after a failed xcodebuild, and the
\* output folder holds no .ipa and no .zip file.
C2_Witness ==
    \E r \in Runs :
        /\ OnlyRun(r)
        /\ run[r].pc = "done"
        /\ run[r].success = "False"
        /\ run[r].log = "build_failed"
        /\ DOMAIN Containers(fs) = {}

(***************************************************************************)
(* C3.  A failed embedding never ends the build.  While the run is in      *)
(* embed_entitlements_in_binary it does not return from build_ipa; when    *)
(* the embedder has returned False the run is in the Manual Packager; and  *)
(* a run whose embedding failed returns False only through the exception   *)
(* handler (a step of the packager raised): otherwise it returns True,     *)
(* and the .ipa file is at its final path.                                 *)
(***************************************************************************)
EmbedderStages ==
    {"embed", "codesign", "codesign_running"}

InEmbedder(rec) ==
    \/ rec.pc \in EmbedderStages
    \/ rec.pc \in {"find_entitlements_file", "open", "dump"}
         /\ rec.caller = "embed"

C3_EmbedFailureNotFatal ==
    [][ \A r \in Runs :
          /\ (InEmbedder(run[r]) /\ Stepped(r)) =>
                InEmbedder(run'[r]) \/ run'[r].pc = "stage"
          /\ (run'[r].embedded = "False" => run'[r].pc \in PackagerStages)
          /\ (run[r].embedded = "False" /\ Returns(r)
                /\ run'[r].log # "exception") =>
                /\ run[r].pc = "cleanup"
                /\ run'[r].success = "True"
                /\ IsFile(fs', run[r].final_ipa_path) ]_vars

\* The only run that began has returned True, and the .ipa file holds a
\* bundle whose executable is missing or unsigned: the embedding failed.
C3_Witness ==
    \E r \in Runs :
        /\ OnlyRun(r)
        /\ run[r].pc = "done"
        /\ run[r].success = "True"
        /\ \E p \in DOMAIN Containers(fs) :
              /\ EndsWith(Basename(p), ".ipa")
              /\ fs[p].data \in {ZipData(NoData), ZipData(UnsignedBinary)}

(***************************************************************************)
(* C4.  The scratch directory is always removed before the pipeline        *)
(* returns: whenever a run has returned, True or False, the directory its  *)
(* mkdtemp made does not exist.                                            *)
(***************************************************************************)
C4_ScratchAlwaysRemoved ==
    \A r \in Runs : run[r].pc = "done" => scratch[r] = "absent"

(***************************************************************************)
(* C5.  The build archive of a run is deleted whatever the outcome: when   *)
(* build_ipa returns, nothing exists at the run's archive path.            *)
(***************************************************************************)
C5_ArchiveAlwaysDeleted ==
    [][ \A r \in Runs :
          (Returns(r) /\ Truthy(run[r].archive_path)) =>
              ~Exists(fs', run[r].archive_path) ]_vars

(***************************************************************************)
(* C6.  No exception escapes to the caller: constructing the builder and   *)
(* calling build_ipa never ends with an exception raised into main.        *)
(***************************************************************************)
C6_NoExceptionEscapes ==
    \A r \in Runs : run[r].success # "raised"

(***************************************************************************)
(* C7.  When build_ipa returns True, the run's <scheme>_<timestamp>.ipa    *)
(* is a file of the output folder, AppEntitlements.plist is a file of the  *)
(* output folder, and the run's scratch directory does not exist.          *)
(***************************************************************************)
C7_SuccessLeavesPackage ==
    [][ \A r \in Runs :
          (Returns(r) /\ run'[r].success = "True") =>
              /\ run[r].final_ipa_path \in
                    { FinalIpaPath(output_folder, Strftime(t)) :
                        t \in 0..MaxClock }
              /\ IsFile(fs', run[r].final_ipa_path)
              /\ IsFile(fs', ReferenceCopyPath(output_folder))
              /\ scratch'[r] = "absent" ]_vars

\* The only run that began has returned True; the output folder holds an
\* .ipa file and the reference copy, and no scratch directory is left.
C7_Witness ==
    \E r \in Runs :
        /\ OnlyRun(r)
        /\ run[r].pc = "done"
        /\ run[r].success = "True"
        /\ \E p \in DOMAIN Containers(fs) : EndsWith(Basename(p), ".ipa")
        /\ IsFile(fs, ReferenceCopyPath(output_folder))
        /\ scratch[r] = "absent"

(***************************************************************************)
(* C8.  Cleanup is best-effort: once the package is at its final path and  *)
(* the manifest is copied, a failure of either removal is suppressed, so   *)
(* a run that reached the removals returns True.                           *)
(***************************************************************************)
C8_CleanupFailureSuppressed ==
    [][ \A r \in Runs :
          (run[r].pc = "cleanup" /\ Returns(r)) =>
              run'[r].success = "True" ]_vars

(***************************************************************************)
(* C9.  A distributable package is never overwritten: when a run moves its *)
(* zip file to its final .ipa path, no file exists at that path yet, also  *)
(* when two runs read the same second of the clock.                        *)
(***************************************************************************)
C9_NeverOverwritten ==
    [][ \A r \in Runs :
          (run[r].pc = "move" /\ run'[r].pc = "copy2") =>
              ~Exists(fs, run[r].final_ipa_path) ]_vars

(***************************************************************************)
(* C10.  With no .entitlements file anywhere under the project root, two   *)
(* calls of find_entitlements_file in sequence (the one of build_ipa and   *)
(* the one of the embedder, in runs that do not overlap) create exactly    *)
(* one file, <project_path>/<scheme>.entitlements, written by the first    *)
(* call only; both calls return that path, and after the second call the   *)
(* file holds what the first call wrote.                                   *)
(***************************************************************************)
C10_SecondCallFindsFirst ==
    \A r \in Runs :
        (run[r].pc = "codesign" /\ "build_ipa" \in run[r].created) =>
            /\ run[r].created = {"build_ipa"}
            /\ run[r].entitlements_path = NewEntitlementsPath
            /\ run[r].embed_entitlements_path = NewEntitlementsPath
            /\ Manifests(fs) = {NewEntitlementsPath}
            /\ fs[NewEntitlementsPath].data = entitlements

\* The second call has returned in a run whose first call created the file.
C10_Witness ==
    \E r \in Runs :
        /\ run[r].pc = "codesign"
        /\ run[r].created = {"build_ipa"}
        /\ run[r].embed_entitlements_path = NewEntitlementsPath

(***************************************************************************)
(* C11.  The pipeline is linear.  The stages of a run occur only in the    *)
(* order LOCATE, RESOLVE_ENTITLEMENTS, ARCHIVE, EMBED, PACKAGE, and then   *)
(* the return: no step goes back to an earlier stage.  The Embedder (and   *)
(* so codesign) is entered only from the test of an xcodebuild status of   *)
(* 0, and a tool runs only in its own stage.  build_ipa returns False only *)
(* from LOCATE with no descriptor, from the test of a non-zero xcodebuild  *)
(* status, or from an exception.  After the return the run takes no step   *)
(* and has no child process.                                               *)
(***************************************************************************)
\* The stage a run is in, by the position of build_ipa and the function
\* that called find_entitlements_file.
PipelineStage(rec) ==
    CASE rec.pc = "start" -> "START"
      [] rec.pc = "get_project_info" -> "LOCATE"
      [] rec.pc \in {"find_entitlements_file", "open", "dump"} ->
            IF rec.caller = "build_ipa" THEN "RESOLVE_ENTITLEMENTS"
            ELSE "EMBED"
      [] rec.pc \in {"archive", "xcodebuild_running", "archive_status"} ->
            "ARCHIVE"
      [] rec.pc \in {"embed", "codesign", "codesign_running"} -> "EMBED"
      [] rec.pc \in PackagerStages -> "PACKAGE"
      [] OTHER -> "RETURNED"

\* The stages in the order of build_ipa.
StageOrder ==
    << "START", "LOCATE", "RESOLVE_ENTITLEMENTS", "ARCHIVE", "EMBED",
       "PACKAGE", "RETURNED" >>

\* The place of a stage in the order.
StageIndex(stage) == CHOOSE i \in DOMAIN StageOrder : StageOrder[i] = stage

C11_LinearPipeline ==
    [][ \A r \in Runs :
          LET from == PipelineStage(run[r])
              to   == PipelineStage(run'[r])
          IN  /\ StageIndex(from) <= StageIndex(to)
              /\ (from # to /\ to \notin {"RETURNED", "LOCATE"}) =>
                    StageIndex(to) = StageIndex(from) + 1
              /\ (from # "EMBED" /\ to = "EMBED") =>
                    run[r].pc = "archive_status" /\ run[r].returncode = 0
              /\ (run'[r].child.tool = "xcodebuild" =>
                    run'[r].pc = "xcodebuild_running")
              /\ (run'[r].child.tool = "codesign" =>
                    run'[r].pc = "codesign_running")
              /\ (Returns(r) /\ run'[r].success = "False") =>
                    \/ run[r].pc = "get_project_info"
                          /\ run'[r].log = "no_project"
                    \/ run[r].pc = "archive_status"
                          /\ run[r].returncode # 0
                          /\ run'[r].log = "build_failed"
                    \/ run'[r].log = "exception"
                          /\ from \in {"RESOLVE_ENTITLEMENTS", "ARCHIVE",
                                       "PACKAGE"}
              /\ (run[r].pc = "done" =>
                    run'[r] = run[r] /\ run[r].child = NoCommand) ]_vars

\* codesign is running in a run that went through every earlier stage.
C11_Witness ==
    \E r \in Runs :
        /\ run[r].pc = "codesign_running"
        /\ run[r].child.tool = "codesign"
        /\ Truthy(run[r].entitlements_path)
        /\ IsFile(fs, BinaryPath(AppPath(run[r].archive_path)))

(***************************************************************************)
(* C12.  get_project_info, on every listing of the project root, returns   *)
(* a workspace path iff some child of the root ends with .xcworkspace, and *)
(* a project path iff some child ends with .xcodeproj; what it returns is  *)
(* such a child, never an entry of a subdirectory.  With one project       *)
(* descriptor and no workspace descriptor it returns (None, that path).    *)
(* Stated of every listing a run at the call may be handed; a run past     *)
(* LOCATE holds what the function returned.                                *)
(***************************************************************************)
\* The children of the project root that end with suffix.
RootEntries(f, suffix) ==
    { p \in Children(f, project_path) : EndsWith(Basename(p), suffix) }

\* The value get_project_info has to return for one kind of descriptor.
Locates(path, entries) ==
    IF entries = {} THEN path = None ELSE path \in entries

C12_LocatorReturns ==
    LET workspaces == RootEntries(fs, ".xcworkspace")
        projects   == RootEntries(fs, ".xcodeproj")
    IN  /\ (\E r \in Runs : run[r].pc = "get_project_info") =>
              \A items \in Listdir(fs, project_path) :
                  LET info == get_project_info(items) IN
                  /\ Locates(info[1], workspaces)
                  /\ Locates(info[2], projects)
                  /\ (workspaces = {} /\ Cardinality(projects) = 1) =>
                        info = <<None, CHOOSE p \in projects : TRUE>>
        /\ \A r \in Runs :
              run[r].pc \notin {"start", "get_project_info", "done"} =>
                  /\ Locates(run[r].workspace_path, workspaces)
                  /\ Locates(run[r].xcodeproj_path, projects)

\* A run past LOCATE holds (None, the project descriptor) although a
\* subdirectory of the root holds another .xcodeproj entry.
C12_Witness ==
    \E r \in Runs :
        /\ run[r].pc = "archive"
        /\ run[r].workspace_path = None
        /\ run[r].xcodeproj_path = ProjectDescriptor
        /\ RootEntries(fs, ".xcworkspace") = {}
        /\ IsDir(fs, NestedDescriptor)

(***************************************************************************)
(* C13.  The manifest is discovered once per build: in every run, the file *)
(* the Embedder hands to codesign is the file build_ipa holds for the copy *)
(* to <output>/AppEntitlements.plist.                                      *)
(***************************************************************************)
C13_DiscoveredOnce ==
    \A r \in Runs :
        run[r].pc \in {"codesign", "codesign_running"} =>
            run[r].embed_entitlements_path = run[r].entitlements_path

(***************************************************************************)
(* C14.  The manifest is written only if missing.  With runs one after the *)
(* other: a call of find_entitlements_file made while some .entitlements   *)
(* file exists under the project root returns one of the existing files    *)
(* and goes on without creating one; and a step changes the .entitlements  *)
(* files of the tree (creates, truncates, rewrites or removes one) only as *)
(* part of a call whose walk found none: the open at a moment when none    *)
(* exists, and the dump into the empty file that open just made.           *)
(***************************************************************************)
\* What find_entitlements_file returned to the caller of rec.
FoundPath(before, after) ==
    IF before.caller = "build_ipa" THEN after.entitlements_path
    ELSE after.embed_entitlements_path

\* The step changes the set or the content of the .entitlements files.
ManifestsChange ==
    \/ Manifests(fs') # Manifests(fs)
    \/ \E p \in Manifests(fs) : fs'[p] # fs[p]

C14_WrittenOnlyIfMissing ==
    [][ /\ \A r \in Runs :
              (/\ run[r].pc = "find_entitlements_file"
               /\ Stepped(r)
               /\ Manifests(fs) # {}) =>
                  /\ run'[r].pc \in {"archive", "codesign"}
                  /\ FoundPath(run[r], run'[r]) \in Manifests(fs)
                  /\ fs' = fs
        /\ ManifestsChange =>
              \E r \in Runs :
                  /\ Stepped(r)
                  /\ \/ run[r].pc = "open" /\ Manifests(fs) = {}
                     \/ /\ run[r].pc = "dump"
                        /\ run[r].caller \in run[r].created
                        /\ Manifests(fs) = {NewEntitlementsPath}
                        /\ fs[NewEntitlementsPath].data = NoData ]_vars

\* A run holds the file an earlier run created, having created none itself.
C14_Witness ==
    \E r \in Runs :
        /\ run[r].pc = "archive"
        /\ run[r].created = {}
        /\ run[r].entitlements_path = NewEntitlementsPath
        /\ fs[NewEntitlementsPath].data = entitlements
        /\ \E q \in Runs \ {r} : run[q].pc = "done"

(***************************************************************************)
(* C15.  The scan-then-create of find_entitlements_file is not atomic.     *)
(* The walk writes nothing, and when it finds no .entitlements file it     *)
(* only moves the run on to the open of <root>/<scheme>.entitlements; the  *)
(* open, a later step, tests nothing: unless it raises it leaves an empty  *)
(* file at that path whether or not another run created or completed the   *)
(* file since the walk.  So two overlapping runs can both finish the walk  *)
(* before either writes, and both open the same path for writing (the      *)
(* state of C15_Witness).                                                  *)
(***************************************************************************)
C15_ScanThenCreateNotAtomic ==
    [][ \A r \in Runs :
          /\ (run[r].pc = "find_entitlements_file" /\ Stepped(r)) =>
                /\ fs' = fs
                /\ Manifests(fs) = {} <=> run'[r].pc = "open"
          /\ (run[r].pc = "open" /\ Stepped(r)) =>
                \/ /\ run'[r].pc = "dump"
                   /\ fs' = WriteFile(fs, NewEntitlementsPath, NoData)
                \/ /\ run'[r].pc # "dump"
                   /\ fs' = fs ]_vars

\* Two runs have both opened <root>/<scheme>.entitlements for writing, each
\* after a walk that found no file, and neither has written its content.
C15_Witness ==
    \E r \in Runs : \E q \in Runs \ {r} :
        /\ run[r].pc = "dump" /\ run[r].created = {"build_ipa"}
        /\ run[q].pc = "dump" /\ run[q].created = {"build_ipa"}
        /\ fs[NewEntitlementsPath].data = NoData

(***************************************************************************)
(* C16.  The workspace is preferred.  Whenever xcodebuild runs for a run:  *)
(* if the project root has a workspace descriptor, the command is          *)
(* -workspace with that descriptor, also when a project descriptor is      *)
(* there too; -project, with the project descriptor, is used only when the *)
(* root has no workspace descriptor.                                       *)
(***************************************************************************)
C16_WorkspacePreferred ==
    \A r \in Runs :
        run[r].child.tool = "xcodebuild" =>
            IF RootEntries(fs, ".xcworkspace") # {}
            THEN /\ run[r].child.flag = "-workspace"
                 /\ run[r].child.target \in RootEntries(fs, ".xcworkspace")
            ELSE /\ run[r].child.flag = "-project"
                 /\ run[r].child.target \in RootEntries(fs, ".xcodeproj")

\* xcodebuild runs on the workspace of a root that holds both descriptors.
C16_Witness ==
    \E r \in Runs :
        /\ run[r].child.tool = "xcodebuild"
        /\ run[r].child.flag = "-workspace"
        /\ run[r].child.target = WorkspaceDescriptor
        /\ IsDir(fs, ProjectDescriptor)
        /\ run[r].xcodeproj_path = ProjectDescriptor

(***************************************************************************)
(* C17.  The only unbounded waits of the pipeline are the two tool calls.  *)
(* When every xcodebuild and codesign process that was started exits,      *)
(* every run of build_ipa that began reaches its return.  And no timeout   *)
(* fires: a run waiting for xcodebuild or codesign leaves that wait only   *)
(* by the exit of the process, with its status, so while the process does  *)
(* not exit the run stays where it is.                                     *)
(***************************************************************************)
\* Run r waits for a child process.
Waiting(r) == run[r].pc \in {"xcodebuild_running", "codesign_running"}

C17_OnlyToolsBlock ==
    /\ \A r \in Runs : Running(r) ~> (run[r].pc = "done")
    /\ [][ \A r \in Runs :
             /\ (run[r].pc = "xcodebuild_running" /\ Stepped(r)) =>
                   /\ run'[r].pc = "archive_status"
                   /\ run'[r].returncode # NoReturnCode
                   /\ run'[r].child = NoCommand
             /\ (run[r].pc = "codesign_running" /\ Stepped(r)) =>
                   /\ run'[r].pc = "stage"
                   /\ run'[r].embedded \in {"True", "False"}
                   /\ run'[r].child = NoCommand
             /\ (Waiting(r) <=> run[r].child # NoCommand) ]_vars

\* A run has returned True after both tools exited: its package holds the
\* executable codesign signed.
C17_Witness ==
    \E r \in Runs :
        /\ run[r].pc = "done"
        /\ run[r].success = "True"
        /\ \E p \in DOMAIN Containers(fs) :
              /\ EndsWith(Basename(p), ".ipa")
              /\ Len(fs[p].data) > 1
              /\ fs[p].data[2] = <<"Mach-O", "adhoc">>

(***************************************************************************)
(* C18.  The result agrees with the artifact.  When build_ipa returns in   *)
(* the only run that began (so every .ipa and .zip file of the output      *)
(* folder is that run's): it returns True iff an .ipa file is in the       *)
(* output folder, and when it returns False no .ipa and no .zip file is    *)
(* in the output folder.                                                   *)
(***************************************************************************)
C18_ResultAgreesWithArtifact ==
    [][ \A r \in Runs :
          (Returns(r) /\ OnlyRun(r) /\ run'[r].success # "raised") =>
              /\ run'[r].success = "True" <=>
                    \E p \in DOMAIN Containers(fs') :
                        EndsWith(Basename(p), ".ipa")
              /\ run'[r].success = "False" =>
                    DOMAIN Containers(fs') = {} ]_vars

(***************************************************************************)
(* C19.  A run that fails at LOCATE never reaches the Entitlements         *)
(* Resolver.  While the project root has neither descriptor, whatever the  *)
(* runs did: no run is in find_entitlements_file or in the creation of the *)
(* manifest, no .entitlements file has appeared in the project tree, the   *)
(* output folder holds no archive, no .zip or .ipa file and no             *)
(* AppEntitlements.plist, and no scratch directory exists.                 *)
(***************************************************************************)
C19_LocateFailureTouchesNothing ==
    Descriptors(fs) = {} =>
        /\ \A r \in Runs :
              /\ run[r].pc \notin {"find_entitlements_file", "open", "dump"}
              /\ run[r].entitlements_path = None
              /\ scratch[r] = "absent"
        /\ Manifests(fs) = {}
        /\ Children(fs, output_folder) = {}
        /\ ~Exists(fs, ReferenceCopyPath(output_folder))

\* Both runs have failed at LOCATE; only the output folder, made by the
\* constructor, is new in the tree.
C19_Witness ==
    /\ Descriptors(fs) = {}
    /\ \A r \in Runs :
          /\ run[r].pc = "done"
          /\ run[r].success = "False"
          /\ run[r].log = "no_project"
    /\ IsDir(fs, output_folder)
    /\ DOMAIN fs = {project_path, SourceFolder, NestedDescriptor,
                    output_folder}

====
